---- MODULE Spec2Model ----
(***************************************************************************)
(* hermes: the update status engine of the daemon (src/daemon/hermesd.py)  *)
(* and the notification listener (src/systray-app/hermes.py).              *)
(*                                                                         *)
(* Text is modelled as a sequence of tokens: a token is a piece of a line  *)
(* that the parsers never look inside (a marker, a bracket, a blank, a     *)
(* package name), so that split, strip and the substring tests act on the  *)
(* token sequence as the Python string operations act on the characters.   *)
(***************************************************************************)
EXTENDS Integers, Sequences, FiniteSets, TLC

\* Longest standard output (in lines) an external dry-run produces in the model.
MaxLines == 2
\* The time, in ticks, at which the clock of the listener taken alone stops.
MaxTime == 9
\* The time, in ticks, at which the clock of the daemon and its listener stops.
MaxDaemonTime == 25
\* The time, in ticks, at which the clock of the daemon taken alone stops.
MaxLoopTime == 25
\* The most calls of GetStatus the daemon serves.
MaxCalls == 1
\* The length of the journal of the daemon.
JournalLen == 4
\* The time, in ticks, at which the clock of two listeners on one file stops.
MaxRaceTime == 3

VARIABLES
    worlddeps,      \* the file Config.WORLDDEPS_PATH
    pkgrevd,        \* the file Config.PKGREVD_PATH
    run,            \* the last engine run: its inputs, the probes it invoked, its outcome
    now,            \* the time, in ticks of a quarter of an hour
    heartbeat_timer,\* SysTrayGui.heartbeat_timer: ticks until it times out, -1 when inactive
    late_join,      \* the single-shot timer of delayed_status_query: ticks left, -1 once fired
    ignore_file,    \* the file IGNORE_FILE
    tray,           \* the title the handler that ran last displayed, "" when it displayed none
    writer,         \* the write of IGNORE_FILE by set_ignore: whether the file is open for
                    \* writing, and its content before and after the write
    dstate,         \* the daemon: "down", "boot" (run() not yet called), "started" (its
                    \* first status task done), "loop", "exited", "crashed"
    status_timers,  \* the pending GLib timeouts of _send_periodic: how many are due in r ticks
    heartbeat_timers,   \* the pending GLib timeouts of _send_heartbeat
    bus,            \* the signals emitted and not yet handled by the listener
    journal,        \* the first things the daemon did, in order (at most JournalLen of them)
    served,         \* how many calls of GetStatus the daemon has served
    signalled,      \* _sigterm_handler has run
    late,           \* a callback of the loop has taken time since the last tick of the
                    \* clock: the loop is behind the tick
    \* history of the listener, for the claims
    last,           \* the event the listener handled last
    restartAt,      \* when heartbeat_timer.start() was last called
    broadcastAt,    \* when a broadcast was last received (or the listener started)
    firedAt,        \* when missed_heartbeat last ran, -1 when it never did
    missedSinceRestart,     \* runs of missed_heartbeat since restartAt
    missedSinceBroadcast    \* runs of missed_heartbeat since broadcastAt

engineVars == <<worlddeps, pkgrevd, run>>
daemonVars == <<dstate, status_timers, heartbeat_timers, bus, journal, served, signalled,
               late>>
listenerVars == <<heartbeat_timer, late_join, ignore_file, tray, writer>>
historyVars == <<last, restartAt, broadcastAt, firedAt, missedSinceRestart,
                 missedSinceBroadcast>>
vars == <<worlddeps, pkgrevd, run, dstate, status_timers, heartbeat_timers, bus,
          journal, served, signalled, late,
          now, heartbeat_timer, late_join, ignore_file, tray, writer,
          last, restartAt, broadcastAt, firedAt, missedSinceRestart, missedSinceBroadcast>>

----------------------------------------------------------------------------
(* Python string operations on token sequences *)

\* The index of the first token of s that lies in T, 0 when there is none.
FirstIdx(s, T) ==
    IF \E i \in 1..Len(s) : s[i] \in T
    THEN CHOOSE i \in 1..Len(s) : s[i] \in T /\ \A j \in 1..(i - 1) : s[j] \notin T
    ELSE 0

\* str.split(sep): the pieces of s between the tokens of T (always at least one piece).
RECURSIVE Split(_, _)
Split(s, T) ==
    LET i == FirstIdx(s, T) IN
    IF i = 0 THEN <<s>>
    ELSE <<SubSeq(s, 1, i - 1)>> \o Split(SubSeq(s, i + 1, Len(s)), T)

\* str.strip(): s without its leading and trailing blanks.
Whitespace == {" ", "\n"}

RECURSIVE Strip(_)
Strip(s) ==
    IF s = <<>> THEN s
    ELSE IF Head(s) \in Whitespace THEN Strip(Tail(s))
    ELSE IF s[Len(s)] \in Whitespace THEN Strip(SubSeq(s, 1, Len(s) - 1))
    ELSE s

\* str(n) for n >= 0, a sequence of digit characters.
Digits == <<"0", "1", "2", "3", "4", "5", "6", "7", "8", "9">>

RECURSIVE Str(_)
Str(n) ==
    IF n < 10 THEN <<Digits[n + 1]>>
    ELSE Append(Str(n \div 10), Digits[(n % 10) + 1])

\* int(text): raises ValueError unless text is a non-empty run of digits.
IntRaises(text) ==
    text = <<>> \/ \E i \in 1..Len(text) : \A d \in 1..10 : Digits[d] # text[i]

RECURSIVE ParseInt(_)
ParseInt(text) ==
    IF text = <<>> THEN 0
    ELSE 10 * ParseInt(SubSeq(text, 1, Len(text) - 1))
         + (CHOOSE d \in 0..9 : Digits[d + 1] = text[Len(text)])

\* "marker in p_out"
Contains(p_out, marker) == \E i \in 1..Len(p_out) : p_out[i] = marker

\* The tokens in which the character "[" occurs.
OpenBracket == {"[", "[binary", "[ebuild"}

\* All sequences over S of length at most n.
SeqsUpTo(S, n) == UNION {[1..k -> S] : k \in 0..n}

----------------------------------------------------------------------------
(* The outcomes of the external collaborators of one engine run *)

\* urlopen: answers, answers with an HTTP error status, fails with URLError, or fails
\* with an exception that is no URLError (a timeout or a reset while the response is read).
NetOutcomes == {"ok", "http_error", "url_error", "other_error"}

\* subprocess.check_call(['emerge', '--sync']): exit 0, a non-zero exit
\* (CalledProcessError), or emerge cannot be launched (OSError).
SyncOutcomes == {"ok", "nonzero_exit", "launch_error"}

\* Sample lines of the update dry-run.
BinaryLine == <<"[binary", "R", "]", " ", "app/foo-1.0", " ", "[", "0.9", "]">>
EbuildLine == <<"[ebuild", "N", "]", " ", "dev/bar-2.0">>
BrokenBinaryLine == <<"[binary", " ", "app/foo-1.0">>
ConfigLine == <<"REQUIRED_USE flag constraints are unsatisfied">>
NoiseLine == <<"Calculating dependencies">>

UpdateStdoutLines == {BinaryLine, EbuildLine, BrokenBinaryLine, ConfigLine, NoiseLine}
UpdateStderrLines == {ConfigLine, NoiseLine}

\* Sample lines of the depclean dry-run.
OrphanLine == <<"dev-libs/foo", ":", " ", "1.2.3", "-r1">>
OrphanSuffixLine == <<"All selected packages", ":", " ", "app/old", ":", " ", " ", "2.0", "_rc1">>
NoVersionLine == <<"dev-libs/foo", ":", " ">>

OrphanStdoutLines == {OrphanLine, OrphanSuffixLine, NoVersionLine}

\* What can go wrong around a probe besides its output: the process cannot be launched,
\* its output is no UTF-8, the intermediate file cannot be written, or it cannot be
\* read back.
Faults == {"none", "launch", "decode", "write", "read"}

NoOutput == [fault |-> "none", exit |-> 0, stdout |-> <<>>, stderr |-> <<>>]

ProbeInputs(outLines, errLines) ==
    {[NoOutput EXCEPT !.fault = f] : f \in {"launch", "decode"}}
    \cup [fault : {"none", "write", "read"}, exit : {0, 1},
          stdout : SeqsUpTo(outLines, MaxLines), stderr : SeqsUpTo(errLines, 1)]

UpdateInputs == ProbeInputs(UpdateStdoutLines, UpdateStderrLines)
OrphanInputs == ProbeInputs(OrphanStdoutLines, {})

DefaultInput == [net |-> "ok", sync |-> "ok", update |-> NoOutput, orphans |-> NoOutput]

----------------------------------------------------------------------------
(* UpdateChecker *)

Absent == [exists |-> FALSE, data |-> <<>>]
File(data) == [exists |-> TRUE, data |-> data]

Raise == [raised |-> TRUE, val |-> 0]
Return(v) == [raised |-> FALSE, val |-> v]

\* check_internet with a failed connection taken for a connection.
check_internet_fail_open(net) ==
    CASE net = "ok" -> Return(1)
      [] net = "http_error" -> Return(1)
      [] net = "url_error" -> Return(1)
      [] OTHER -> Raise

check_internet(net) ==
    CASE net = "ok" -> Return(1)
      [] net = "http_error" -> Return(1)
      [] net = "url_error" -> Return(0)
      [] OTHER -> Raise

\* re.search(p, line) for one of config_patterns
ConfigPhrases ==
    {"The following USE changes are necessary to proceed",
     "REQUIRED_USE flag constraints are unsatisfied",
     "masked packages are required to complete your request"}

MatchesConfigPattern(line) == \E i \in 1..Len(line) : line[i] \in ConfigPhrases

\* p_out.split("]")[1] raises IndexError when p_out holds no "]".
FieldRaises(p_out) == Len(Split(p_out, {"]"})) < 2

\* p_out.split("]")[1].split("[")[0].strip()
Field(p_out) == Strip(Split(Split(p_out, {"]"})[2], OpenBracket)[1])

\* The fields of the lines of stdout_lines that carry the marker, in order.
RECURSIVE Marked(_, _)
Marked(stdout_lines, marker) ==
    IF stdout_lines = <<>> THEN <<>>
    ELSE (IF Contains(Head(stdout_lines), marker)
          THEN <<Field(Head(stdout_lines))>> ELSE <<>>)
         \o Marked(Tail(stdout_lines), marker)

\* check_update: raises, or returns the new content of the worlddeps file.
check_update(u, old) ==
    LET combined_output == u.stdout \o u.stderr
        need_cfg == IF \E i \in 1..Len(combined_output) :
                           MatchesConfigPattern(combined_output[i])
                    THEN 1 ELSE 0
        broken == \E i \in 1..Len(u.stdout) :
                     /\ Contains(u.stdout[i], "[binary") \/ Contains(u.stdout[i], "[ebuild")
                     /\ FieldRaises(u.stdout[i])
    IN  IF u.fault \in {"launch", "decode", "write"} \/ broken
        THEN [raised |-> TRUE, file |-> old]
        ELSE [raised |-> FALSE,
              file |-> File(<<Marked(u.stdout, "[binary"), Marked(u.stdout, "[ebuild"),
                              need_cfg>>)]

\* re.search(pattern, p_out): the first place where a category/name token is followed
\* by ":", at least one blank and a version; 0 when there is none.
CatPkg == {"dev-libs/foo", "app/old"}
Version == {"1.2.3", "2.0"}
Suffix == {"_rc1"}
Revision == {"-r1"}

RECURSIVE SkipBlanks(_, _)
SkipBlanks(p_out, i) ==
    IF i <= Len(p_out) /\ p_out[i] = " " THEN SkipBlanks(p_out, i + 1) ELSE i

MatchAt(p_out, i) ==
    /\ i + 3 <= Len(p_out)
    /\ p_out[i] \in CatPkg
    /\ p_out[i + 1] = ":"
    /\ p_out[i + 2] = " "
    /\ SkipBlanks(p_out, i + 2) <= Len(p_out)
    /\ p_out[SkipBlanks(p_out, i + 2)] \in Version

Search(p_out) ==
    IF \E i \in 1..Len(p_out) : MatchAt(p_out, i)
    THEN CHOOSE i \in 1..Len(p_out) :
            MatchAt(p_out, i) /\ \A j \in 1..(i - 1) : ~MatchAt(p_out, j)
    ELSE 0

\* f"{group(1)}-{group(2)}" + group(3) + group(4)
ToRemove(p_out) ==
    LET i == Search(p_out)
        v == SkipBlanks(p_out, i + 2)
        g3 == IF v + 1 <= Len(p_out) /\ p_out[v + 1] \in Suffix THEN <<p_out[v + 1]>> ELSE <<>>
        r == v + 1 + Len(g3)
        g4 == IF r <= Len(p_out) /\ p_out[r] \in Revision THEN <<p_out[r]>> ELSE <<>>
    IN  <<p_out[i], "-", p_out[v]>> \o g3 \o g4

RECURSIVE Removable(_)
Removable(stdout_lines) ==
    IF stdout_lines = <<>> THEN <<>>
    ELSE (IF Search(Head(stdout_lines)) # 0
          THEN <<ToRemove(Head(stdout_lines))>> ELSE <<>>)
         \o Removable(Tail(stdout_lines))

\* check_orphans: raises, or returns the new content of the pkgrevdeps file, which is
\* the pickle of [rm_list], a list of one element.
check_orphans(o, old) ==
    IF o.fault \in {"launch", "decode", "write"}
    THEN [raised |-> TRUE, file |-> old]
    ELSE [raised |-> FALSE, file |-> File(<<Removable(o.stdout)>>)]

\* with open(path, "rb") as f: pickle.load(f)
Load(file, fault) ==
    IF fault = "read" \/ ~file.exists THEN Raise ELSE Return(file.data)

Outcome(status, raised, calls, w, p) ==
    [status |-> status, raised |-> raised, calls |-> calls, worlddeps |-> w, pkgrevd |-> p]

\* OrphanStage without the return in the handler of check_orphans's exception: the
\* run goes on to read whatever pkgrevdeps file is on disk.
OrphanStage_NoReturn(in, calls, w, p) ==
    LET co == check_orphans(in.orphans, p)
        c == Append(calls, "check_orphans")
        rm_list == Load(co.file, in.orphans.fault)
    IN  IF rm_list.raised THEN Outcome("orphans_check_failed", FALSE, c, w, co.file)
        ELSE IF Len(rm_list.val) = 0 THEN Outcome("up_to_date", FALSE, c, w, co.file)
        ELSE Outcome("orphans_detected", FALSE, c, w, co.file)

\* The tail of get_status: the orphan probe and the classification of its result.
OrphanStage(in, calls, w, p) ==
    LET co == check_orphans(in.orphans, p)
        c == Append(calls, "check_orphans")
        rm_list == Load(co.file, in.orphans.fault)
    IN  IF co.raised THEN Outcome("orphans_check_failed", FALSE, c, w, co.file)
        ELSE IF rm_list.raised THEN Outcome("orphans_check_failed", FALSE, c, w, co.file)
        ELSE IF Len(rm_list.val) = 0 THEN Outcome("up_to_date", FALSE, c, w, co.file)
        ELSE Outcome("orphans_detected", FALSE, c, w, co.file)

\* UpdateStage with the emptiness of the update lists tested before need_cfg.
UpdateStage_EmptinessFirst(in, calls, w, p) ==
    LET cu == check_update(in.update, w)
        c == Append(calls, "check_update")
        loaded == Load(cu.file, in.update.fault)
    IN  IF cu.raised \/ loaded.raised
        THEN Outcome("upgrade_check_failed", FALSE, c, cu.file, p)
        ELSE IF Len(loaded.val[1]) # 0 \/ Len(loaded.val[2]) # 0
             THEN Outcome("upgrade_detected", FALSE, c, cu.file, p)
        ELSE IF loaded.val[3] # 0 THEN Outcome("blocked_upgrade", FALSE, c, cu.file, p)
        ELSE OrphanStage(in, c, cu.file, p)

\* UpdateStage with only bin_list tested for emptiness.
UpdateStage_BinaryOnly(in, calls, w, p) ==
    LET cu == check_update(in.update, w)
        c == Append(calls, "check_update")
        loaded == Load(cu.file, in.update.fault)
    IN  IF cu.raised \/ loaded.raised
        THEN Outcome("upgrade_check_failed", FALSE, c, cu.file, p)
        ELSE IF loaded.val[3] # 0 THEN Outcome("blocked_upgrade", FALSE, c, cu.file, p)
        ELSE IF Len(loaded.val[1]) = 0 THEN OrphanStage(in, c, cu.file, p)
        ELSE Outcome("upgrade_detected", FALSE, c, cu.file, p)

\* UpdateStage without the return in the handler of check_update's exception: the
\* run goes on to read whatever worlddeps file is on disk.
UpdateStage_NoReturn(in, calls, w, p) ==
    LET cu == check_update(in.update, w)
        c == Append(calls, "check_update")
        loaded == Load(cu.file, in.update.fault)
    IN  IF loaded.raised THEN Outcome("upgrade_check_failed", FALSE, c, cu.file, p)
        ELSE IF loaded.val[3] # 0 THEN Outcome("blocked_upgrade", FALSE, c, cu.file, p)
        ELSE IF Len(loaded.val[1]) = 0 /\ Len(loaded.val[2]) = 0
             THEN OrphanStage(in, c, cu.file, p)
        ELSE Outcome("upgrade_detected", FALSE, c, cu.file, p)

\* The update probe and the classification of its result.
UpdateStage(in, calls, w, p) ==
    LET cu == check_update(in.update, w)
        c == Append(calls, "check_update")
        loaded == Load(cu.file, in.update.fault)
    IN  IF cu.raised THEN Outcome("upgrade_check_failed", FALSE, c, cu.file, p)
        ELSE IF loaded.raised \/ Len(loaded.val) # 3
             THEN Outcome("upgrade_check_failed", FALSE, c, cu.file, p)
        ELSE LET bin_list == loaded.val[1]
                 src_list == loaded.val[2]
                 need_cfg == loaded.val[3]
             IN  IF need_cfg # 0 THEN Outcome("blocked_upgrade", FALSE, c, cu.file, p)
                 ELSE IF Len(bin_list) = 0 /\ Len(src_list) = 0
                      THEN OrphanStage(in, c, cu.file, p)
                 ELSE Outcome("upgrade_detected", FALSE, c, cu.file, p)

\* UpdateChecker.get_status on the probe outcomes `in`, with the intermediate files
\* holding w and p when it starts.
get_status(in, w, p) ==
    LET is_online == check_internet(in.net)
        c1 == <<"check_internet">>
        c2 == Append(c1, "sync")
    IN  IF is_online.raised THEN Outcome("", TRUE, c1, w, p)
        ELSE IF is_online.val # 1 THEN Outcome("no_internet", FALSE, c1, w, p)
        ELSE IF in.sync # "ok" THEN Outcome("blocked_sync", FALSE, c2, w, p)
        ELSE UpdateStage(in, c2, w, p)

\* No engine run yet.
NoRun == [caller |-> "", in |-> DefaultInput, status |-> "", raised |-> FALSE, calls |-> <<>>]

----------------------------------------------------------------------------
(* HermesDaemon *)

HEARTBEAT_INTERVAL == 2700
STATUS_INTERVAL == 21600

\* The seconds of a GLib timeout, in ticks of the model's clock.
Ticks(seconds) == seconds \div (15 * 60)

\* No pending timeout, over the delays 0..Ticks(interval).
NoTimers(interval) == [r \in 0..Ticks(interval) |-> 0]

\* GLib.timeout_add_seconds(interval, callback): one more source due in interval.
timeout_add_seconds(timers, interval) ==
    [timers EXCEPT ![Ticks(interval)] = @ + 1]

\* The source that is dispatched leaves the due ones; it comes back one interval
\* later when its callback returned True, and is destroyed otherwise.
Dispatched(timers, interval, again) ==
    LET rest == [timers EXCEPT ![0] = @ - 1] IN
    IF again THEN timeout_add_seconds(rest, interval) ELSE rest

\* One tick later.
Elapse(timers, interval) ==
    [r \in 0..Ticks(interval) |-> IF r < Ticks(interval) THEN timers[r + 1] ELSE 0]

\* The journal with the entries added, cut at JournalLen.
Journal(entries) ==
    LET all == journal \o entries IN
    IF Len(all) <= JournalLen THEN all ELSE SubSeq(all, 1, JournalLen)

\* HermesDaemon.__init__ has run and nothing else: no timeout is pending, nothing
\* was emitted, no call was served, no signal was handled.
Constructed ==
    /\ status_timers = NoTimers(STATUS_INTERVAL)
    /\ heartbeat_timers = NoTimers(HEARTBEAT_INTERVAL)
    /\ bus = <<>>
    /\ journal = <<>>
    /\ served = 0
    /\ signalled = FALSE
    /\ late = FALSE

\* The daemon is not running: nothing is pending, nothing is in flight.
DaemonDown ==
    /\ dstate = "down"
    /\ Constructed

----------------------------------------------------------------------------
(* SysTrayGui: the listener *)

\* One tick of the model's clock: the delay of the late-join query, in milliseconds.
TickMs == 15 * 60 * 1000
TickSeconds == TickMs \div 1000
\* heartbeat_timer.setInterval(1 * 3600 * 1000), in ticks
HeartbeatTimeout == (1 * 3600 * 1000) \div TickMs
\* QTimer.singleShot(15 * 60 * 1000, delayed_status_query), in ticks
LateJoinDelay == (15 * 60 * 1000) \div TickMs

\* time.time(), in seconds
time_time == now * TickSeconds

Labels ==
    {"Ignore notifications for 1 day", "Ignore notifications for 7 days",
     "Ignore notifications for 15 days", "Ignore notifications for 30 days",
     "Allow notifications"}

ignore_durations(label) ==
    CASE label = "Ignore notifications for 1 day" -> 24 * 3600
      [] label = "Ignore notifications for 7 days" -> 7 * 24 * 3600
      [] label = "Ignore notifications for 15 days" -> 15 * 24 * 3600
      [] label = "Ignore notifications for 30 days" -> 30 * 24 * 3600
      [] label = "Allow notifications" -> 0

\* is_ignored with the comparison off by one.
is_ignored_inclusive ==
    IF ~ignore_file.exists THEN FALSE
    ELSE LET text == Strip(ignore_file.data) IN
         IF IntRaises(text) THEN FALSE ELSE time_time <= ParseInt(text)

\* A byte that is no text in the encoding of the locale: read() raises
\* UnicodeDecodeError on a file that holds it.
Undecodable == "0xff"

\* open(IGNORE_FILE).read() raises.
ReadRaises(file) == \E i \in 1..Len(file.data) : file.data[i] = Undecodable

\* is_ignored with the handler of the exception returning True.
is_ignored_of_fail_closed(file, time) ==
    IF ~file.exists THEN FALSE
    ELSE IF ReadRaises(file) THEN TRUE
    ELSE LET text == Strip(file.data) IN
         IF IntRaises(text) THEN TRUE ELSE time < ParseInt(text)

\* is_ignored when IGNORE_FILE is `file` and time.time() gives `time`.
is_ignored_of(file, time) ==
    IF ~file.exists THEN FALSE
    ELSE IF ReadRaises(file) THEN FALSE
    ELSE LET text == Strip(file.data) IN
         IF IntRaises(text) THEN FALSE ELSE time < ParseInt(text)

is_ignored == is_ignored_of(ignore_file, time_time)

\* The title handle_message displays for the message, "" when it displays nothing.
Displayed(message) ==
    CASE message = "no_internet" -> "No Internet"
      [] message = "blocked_sync" -> "Sync Failed"
      [] message = "upgrade_check_failed" -> "Check Failed"
      [] message = "orphan_check_failed" -> "Check Failed"
      [] message = "blocked_upgrade" -> IF ~is_ignored THEN "Blocked Upgrade" ELSE ""
      [] message = "orphans_detected" -> IF ~is_ignored THEN "Orphans Detected" ELSE ""
      [] message = "upgrade_detected" -> IF ~is_ignored THEN "System Upgrade" ELSE ""
      [] message = "up_to_date" -> IF ~is_ignored THEN "Up to date" ELSE ""
      [] OTHER -> ""

handle_message(message) ==
    /\ heartbeat_timer' = HeartbeatTimeout
    /\ tray' = Displayed(message)
    /\ UNCHANGED <<ignore_file, writer>>

\* handle_heartbeat without the restart of the timer.
handle_heartbeat_no_restart ==
    /\ tray' = ""
    /\ UNCHANGED <<heartbeat_timer, ignore_file, writer>>

handle_heartbeat ==
    /\ heartbeat_timer' = HeartbeatTimeout
    /\ tray' = ""
    /\ UNCHANGED <<ignore_file, writer>>

\* missed_heartbeat with the timer taken for a single-shot one.
missed_heartbeat_single_shot ==
    /\ tray' = "Heartbeat Missed"
    /\ heartbeat_timer' = -1
    /\ UNCHANGED <<ignore_file, writer>>

\* The timeout of heartbeat_timer, which is a repeating timer: it runs again one
\* interval later.
missed_heartbeat ==
    /\ tray' = "Heartbeat Missed"
    /\ heartbeat_timer' = HeartbeatTimeout
    /\ UNCHANGED <<ignore_file, writer>>

\* No write of IGNORE_FILE is in progress.
Idle == [pc |-> "idle", old |-> Absent, new |-> Absent]

\* What becomes of the write of IGNORE_FILE: it succeeds, open() raises (the file is
\* left as it was), or open() has truncated the file and the write raises.
WriteOutcomes == {"ok", "open_error", "write_error"}

\* set_ignore with the expiry counted from 0 instead of from time.time().
set_ignore_from_zero(label, outcome) ==
    LET duration == ignore_durations(label) IN
    /\ UNCHANGED <<heartbeat_timer, writer>>
    /\ IF duration = 0
       THEN ignore_file' = Absent /\ tray' = "Ignore Cleared"
       ELSE CASE outcome = "ok" ->
                    ignore_file' = File(Str(duration)) /\ tray' = "Ignore Set"
              [] outcome = "open_error" -> ignore_file' = ignore_file /\ tray' = ""
              [] OTHER -> ignore_file' = File(<<>>) /\ tray' = ""

\* set_ignore; outcome is what becomes of the write of IGNORE_FILE.
set_ignore(label, outcome) ==
    LET duration == ignore_durations(label) IN
    /\ UNCHANGED <<heartbeat_timer, writer>>
    /\ IF duration = 0
       THEN ignore_file' = Absent /\ tray' = "Ignore Cleared"
       ELSE CASE outcome = "ok" ->
                    ignore_file' = File(Str(time_time + duration)) /\ tray' = "Ignore Set"
              [] outcome = "open_error" -> ignore_file' = ignore_file /\ tray' = ""
              [] OTHER -> ignore_file' = File(<<>>) /\ tray' = ""

\* HermesDBusHandler.get_status gives None when the reply is no ReplyMessage.
None == ""

\* delayed_status_query without the test of the status: handle_message is called
\* with whatever dbus_handler.get_status() returned.
delayed_status_query_unchecked(status) ==
    /\ late_join' = -1
    /\ handle_message(status)

\* delayed_status_query, status being what dbus_handler.get_status() returned.
delayed_status_query(status) ==
    /\ late_join' = -1
    /\ IF status # None THEN handle_message(status)
       ELSE UNCHANGED <<heartbeat_timer, ignore_file, writer>> /\ tray' = ""

\* The passing of one tick on the timers of the listener.
ListenerTick ==
    /\ heartbeat_timer # 0
    /\ late_join # 0
    /\ heartbeat_timer' = IF heartbeat_timer > 0 THEN heartbeat_timer - 1 ELSE heartbeat_timer
    /\ late_join' = IF late_join > 0 THEN late_join - 1 ELSE late_join
    /\ UNCHANGED <<ignore_file, tray, writer>>

\* SysTrayGui.__init__ and the start of the late-join timer, at time 0.
ListenerStarted ==
    /\ now = 0
    /\ writer = Idle
    /\ heartbeat_timer = HeartbeatTimeout
    /\ late_join = LateJoinDelay
    /\ tray = ""
    /\ last = [kind |-> "start", message |-> "", window |-> Absent, at |-> 0]
    /\ restartAt = 0
    /\ broadcastAt = 0
    /\ firedAt = -1
    /\ missedSinceRestart = 0
    /\ missedSinceBroadcast = 0

\* The literals handle_message tells apart, and those the daemon sends.
ListenerCodes ==
    {"no_internet", "blocked_sync", "upgrade_check_failed", "orphan_check_failed",
     "blocked_upgrade", "orphans_detected", "upgrade_detected", "up_to_date"}
DaemonCodes ==
    {"no_internet", "blocked_sync", "upgrade_check_failed", "orphans_check_failed",
     "blocked_upgrade", "orphans_detected", "upgrade_detected", "up_to_date"}

\* The suppression files a listener may find when it starts: none, an expiry (in
\* ticks after the start) with or without a newline after it, an empty file, a file
\* that holds no number, a file of white space, a file that cannot be read.
InitExpiries == {0, 2, MaxTime + 1}
InitIgnoreFiles ==
    {Absent, File(<<>>), File(<<"x">>), File(Str(2 * TickSeconds) \o <<"\n">>),
     File(<<" ", "\n">>), File(<<Undecodable>>)}
    \cup {File(Str(e * TickSeconds)) : e \in InitExpiries}

Event(kind, message) == [kind |-> kind, message |-> message, window |-> ignore_file, at |-> now]

(* The handlers of the listener, with the history the claims read *)

OnMessageSent(message) ==
    /\ handle_message(message)
    /\ last' = Event("MessageSent", message)
    /\ restartAt' = now /\ broadcastAt' = now
    /\ missedSinceRestart' = 0 /\ missedSinceBroadcast' = 0
    /\ UNCHANGED <<now, late_join, firedAt>>

OnHeartbeat ==
    /\ handle_heartbeat
    /\ last' = Event("Heartbeat", "")
    /\ restartAt' = now /\ broadcastAt' = now
    /\ missedSinceRestart' = 0 /\ missedSinceBroadcast' = 0
    /\ UNCHANGED <<now, late_join, firedAt>>

OnTimeout ==
    /\ heartbeat_timer = 0
    /\ missed_heartbeat
    /\ last' = Event("timeout", "")
    /\ firedAt' = now
    /\ missedSinceRestart' = missedSinceRestart + 1
    /\ missedSinceBroadcast' = missedSinceBroadcast + 1
    /\ UNCHANGED <<now, late_join, restartAt, broadcastAt>>

OnLateJoin(status) ==
    /\ late_join = 0
    /\ delayed_status_query(status)
    /\ last' = Event("GetStatus", status)
    /\ IF status # None
       THEN restartAt' = now /\ missedSinceRestart' = 0
       ELSE UNCHANGED <<restartAt, missedSinceRestart>>
    /\ UNCHANGED <<now, broadcastAt, firedAt, missedSinceBroadcast>>

(* The listener with any broadcast arriving at any time *)

Tick ==
    /\ now < MaxTime
    /\ now' = now + 1
    /\ ListenerTick
    /\ UNCHANGED <<engineVars, daemonVars, historyVars>>

RecvMessageSent(message) == OnMessageSent(message) /\ UNCHANGED <<engineVars, daemonVars>>

RecvHeartbeat == OnHeartbeat /\ UNCHANGED <<engineVars, daemonVars>>

HeartbeatTimesOut == OnTimeout /\ UNCHANGED <<engineVars, daemonVars>>

LateJoin(status) == OnLateJoin(status) /\ UNCHANGED <<engineVars, daemonVars>>

MenuAction(label, outcome) ==
    /\ set_ignore(label, outcome)
    /\ last' = Event("menu", label)
    /\ UNCHANGED <<engineVars, daemonVars, now, late_join, restartAt, broadcastAt, firedAt,
                   missedSinceRestart, missedSinceBroadcast>>

InitListener ==
    /\ worlddeps = Absent
    /\ pkgrevd = Absent
    /\ run = NoRun
    /\ DaemonDown
    /\ ListenerStarted
    /\ ignore_file \in InitIgnoreFiles

NextListener ==
    \/ Tick
    \/ \E message \in ListenerCodes \cup DaemonCodes : RecvMessageSent(message)
    \/ RecvHeartbeat
    \/ HeartbeatTimesOut
    \/ \E status \in DaemonCodes \cup {None} : LateJoin(status)
    \/ \E label \in Labels, outcome \in WriteOutcomes : MenuAction(label, outcome)

SpecListener == InitListener /\ [][NextListener]_vars

----------------------------------------------------------------------------
(* Two listeners of one user on the same IGNORE_FILE: the menu of one is used while
   the other receives a status. The handlers of one listener run one after the other
   on its main thread, so that only another process reads between the two steps of
   the write. The user has set a suppression window before. *)

\* set_ignore of the other listener, up to open(IGNORE_FILE, "w"), which truncates
\* the file; the expiry is computed before.
SetIgnoreOpen(label) ==
    /\ writer.pc = "idle"
    /\ ignore_durations(label) # 0
    /\ writer' = [pc |-> "opened", old |-> ignore_file,
                  new |-> File(Str(time_time + ignore_durations(label)))]
    /\ ignore_file' = File(<<>>)
    /\ UNCHANGED <<engineVars, daemonVars, now, heartbeat_timer, late_join, tray, historyVars>>

\* f.write(str(expiry)) and the end of the with statement, which flushes it.
SetIgnoreWrite ==
    /\ writer.pc = "opened"
    /\ ignore_file' = writer.new
    /\ writer' = Idle
    /\ UNCHANGED <<engineVars, daemonVars, now, heartbeat_timer, late_join, tray, historyVars>>

\* Time passes, while no write is in progress.
RaceTick == writer.pc = "idle" /\ now < MaxRaceTime /\ Tick

InitRace ==
    /\ worlddeps = Absent
    /\ pkgrevd = Absent
    /\ run = NoRun
    /\ DaemonDown
    /\ ListenerStarted
    /\ ignore_file \in {File(Str(e * TickSeconds)) : e \in InitExpiries \ {0}}

NextRace ==
    \/ \E label \in Labels : SetIgnoreOpen(label)
    \/ SetIgnoreWrite
    \/ \E message \in ListenerCodes : RecvMessageSent(message)
    \/ LateJoin(None)
    \/ RaceTick

SpecRace == InitRace /\ [][NextRace]_vars

----------------------------------------------------------------------------
(* The engine alone: one run of get_status on every combination of probe outcomes *)

\* Whether get_status on `in` invokes the probe.
Invokes(in, w, p, probe) ==
    LET c == get_status(in, w, p).calls IN \E k \in 1..Len(c) : c[k] = probe

\* Every combination of probe outcomes, the outcome of a probe that the run does not
\* invoke being left at its default (it is never looked at).
EngineInputs(w, p) ==
    LET A == {[DefaultInput EXCEPT !.net = n] : n \in NetOutcomes}
        B == A \cup {[i EXCEPT !.sync = s] :
                        i \in {j \in A : Invokes(j, w, p, "sync")}, s \in SyncOutcomes}
        C == B \cup {[i EXCEPT !.update = u] :
                        i \in {j \in B : Invokes(j, w, p, "check_update")}, u \in UpdateInputs}
    IN  C \cup {[i EXCEPT !.orphans = o] :
                   i \in {j \in C : Invokes(j, w, p, "check_orphans")}, o \in OrphanInputs}

\* The probe outcomes the daemon meets in the model of the whole system: one for
\* each way out of get_status.
Scenarios ==
    {DefaultInput,
     [DefaultInput EXCEPT !.net = "url_error"],
     [DefaultInput EXCEPT !.net = "other_error"],
     [DefaultInput EXCEPT !.sync = "nonzero_exit"],
     [DefaultInput EXCEPT !.update.fault = "launch"],
     [DefaultInput EXCEPT !.update.stdout = <<BinaryLine>>],
     [DefaultInput EXCEPT !.update.stderr = <<ConfigLine>>],
     [DefaultInput EXCEPT !.orphans.fault = "launch"],
     [DefaultInput EXCEPT !.orphans.stdout = <<OrphanLine>>]}

\* Intermediate files left in /tmp by an earlier run of the daemon.
StaleWorlddeps == File(<<<<<<"app/foo-1.0">>>>, <<>>, 1>>)
StalePkgrevd == File(<<<<<<"app/old", "-", "2.0">>>>>>)

\* One call of UpdateChecker.get_status by `caller`.
EngineRun(caller, in) ==
    LET r == get_status(in, worlddeps, pkgrevd) IN
    /\ run' = [caller |-> caller, in |-> in, status |-> r.status, raised |-> r.raised,
               calls |-> r.calls]
    /\ worlddeps' = r.worlddeps
    /\ pkgrevd' = r.pkgrevd

\* The intermediate files as the runs before may have left them.
LeftWorlddeps ==
    {Absent, StaleWorlddeps} \cup {get_status(in, Absent, Absent).worlddeps : in \in Scenarios}
LeftPkgrevd ==
    {Absent, StalePkgrevd} \cup {get_status(in, Absent, Absent).pkgrevd : in \in Scenarios}

InitEngine ==
    /\ worlddeps \in LeftWorlddeps
    /\ pkgrevd \in LeftPkgrevd
    /\ run = NoRun
    /\ DaemonDown
    /\ ListenerStarted
    /\ ignore_file = Absent

\* The engine runs for a call of GetStatus and then, on the same probe outcomes, for
\* the periodic task.
RunInputs == IF run = NoRun THEN EngineInputs(worlddeps, pkgrevd) ELSE {run.in}
Runner == IF run = NoRun THEN "GetStatus" ELSE "_send_periodic"

RunEngine ==
    /\ run.caller # "_send_periodic"
    /\ \E in \in RunInputs : EngineRun(Runner, in)
    /\ UNCHANGED <<daemonVars, now, listenerVars, historyVars>>

NextEngine == RunEngine

SpecEngine == InitEngine /\ [][NextEngine]_vars

----------------------------------------------------------------------------
(* The daemon and the listener on the bus *)

MessageSent(message) == [signal |-> "MessageSent", message |-> message]
Heartbeat == [signal |-> "Heartbeat", message |-> ""]

\* _send_periodic on the probe outcomes `in`; pending are the timeouts of the task
\* that stay if the call returns, lost those that stay if get_status raises.
_send_periodic(in, pending, lost) ==
    LET r == get_status(in, worlddeps, pkgrevd) IN
    /\ EngineRun("_send_periodic", in)
    /\ IF r.raised
       THEN /\ bus' = bus
            /\ status_timers' = lost
            /\ journal' = Journal(<<"get_status">>)
       ELSE /\ bus' = Append(bus, MessageSent(r.status))
            /\ status_timers' = timeout_add_seconds(pending, STATUS_INTERVAL)
            /\ journal' = Journal(<<"get_status", "MessageSent">>)

_send_heartbeat(pending) ==
    /\ bus' = Append(bus, Heartbeat)
    /\ heartbeat_timers' = timeout_add_seconds(pending, HEARTBEAT_INTERVAL)
    /\ journal' = Journal(<<"Heartbeat">>)

\* MessageEmitter.GetStatus on the probe outcomes `in`.
GetStatus(in) ==
    /\ served < MaxCalls
    /\ EngineRun("GetStatus", in)
    /\ served' = served + 1
    /\ journal' = Journal(<<"GetStatus">>)

\* What the call of GetStatus that ran the engine last gave its caller: the status
\* get_status returned, or an error reply when get_status raised.
Reply(r) == IF r.raised THEN Raise ELSE Return(r.status)

\* loop.quit(), called by _sigterm_handler while a callback of the loop runs or while
\* the loop waits: loop.run() returns when the callback has, and the process exits.
\* `then` is the state of the daemon without the signal.
Quit(sig, then) == IF sig THEN "exited" ELSE then

\* HermesDaemon.run with its two calls swapped: _send_heartbeat(), then
\* _send_periodic(), then loop.run().
DaemonRun_heartbeat_first(sig) ==
    /\ dstate = "boot"
    /\ \E in \in Scenarios :
         LET r == get_status(in, worlddeps, pkgrevd) IN
         /\ EngineRun("_send_periodic", in)
         /\ heartbeat_timers' = timeout_add_seconds(heartbeat_timers, HEARTBEAT_INTERVAL)
         /\ IF r.raised
            THEN /\ dstate' = "crashed"
                 /\ bus' = Append(bus, Heartbeat)
                 /\ journal' = Journal(<<"Heartbeat", "get_status">>)
                 /\ UNCHANGED status_timers
            ELSE /\ dstate' = "loop"
                 /\ bus' = bus \o <<Heartbeat, MessageSent(r.status)>>
                 /\ journal' = Journal(<<"Heartbeat", "get_status", "MessageSent">>)
                 /\ status_timers' = timeout_add_seconds(status_timers, STATUS_INTERVAL)
    /\ signalled' = (signalled \/ sig)
    /\ late' = TRUE
    /\ UNCHANGED <<served, now, listenerVars, historyVars>>

\* HermesDaemon.run, first statement: _send_periodic(). An exception of get_status
\* leaves run() and ends the process. A signal handled meanwhile calls loop.quit()
\* on a loop that does not run yet, which g_main_loop_run() then sets running.
DaemonRun(sig) ==
    /\ dstate = "boot"
    /\ \E in \in Scenarios :
         /\ _send_periodic(in, status_timers, status_timers)
         /\ dstate' = IF get_status(in, worlddeps, pkgrevd).raised
                      THEN "crashed" ELSE "started"
    /\ signalled' = (signalled \/ sig)
    /\ late' = TRUE
    /\ UNCHANGED <<heartbeat_timers, served, now, listenerVars, historyVars>>

\* HermesDaemon.run, second statement: _send_heartbeat(), and the entry in loop.run().
DaemonRunHeartbeat ==
    /\ dstate = "started"
    /\ _send_heartbeat(heartbeat_timers)
    /\ dstate' = "loop"
    /\ UNCHANGED <<engineVars, status_timers, served, signalled, late, now, listenerVars,
                   historyVars>>

\* The main loop dispatches a due timeout of _send_periodic. The callback returns
\* True, so the source stays; an exception in it destroys the source.
StatusTimerFires(sig) ==
    /\ dstate = "loop"
    /\ bus = <<>>
    /\ status_timers[0] > 0
    /\ \E in \in Scenarios :
         _send_periodic(in, Dispatched(status_timers, STATUS_INTERVAL, TRUE),
                        Dispatched(status_timers, STATUS_INTERVAL, FALSE))
    /\ dstate' = Quit(sig, "loop")
    /\ signalled' = (signalled \/ sig)
    /\ late' = TRUE
    /\ UNCHANGED <<heartbeat_timers, served, now, listenerVars, historyVars>>

\* The main loop dispatches a due timeout of _send_heartbeat.
HeartbeatTimerFires ==
    /\ dstate = "loop"
    /\ bus = <<>>
    /\ heartbeat_timers[0] > 0
    /\ _send_heartbeat(Dispatched(heartbeat_timers, HEARTBEAT_INTERVAL, TRUE))
    /\ UNCHANGED <<engineVars, dstate, status_timers, served, signalled, late, now,
                   listenerVars, historyVars>>

\* The listener handles the signal at the head of the bus.
DeliverMessageSent ==
    /\ bus # <<>>
    /\ Head(bus).signal = "MessageSent"
    /\ OnMessageSent(Head(bus).message)
    /\ bus' = Tail(bus)
    /\ UNCHANGED <<engineVars, dstate, status_timers, heartbeat_timers, journal, served,
                   signalled, late>>

DeliverHeartbeat ==
    /\ bus # <<>>
    /\ Head(bus).signal = "Heartbeat"
    /\ OnHeartbeat
    /\ bus' = Tail(bus)
    /\ UNCHANGED <<engineVars, dstate, status_timers, heartbeat_timers, journal, served,
                   signalled, late>>

\* The late-join query: the listener calls GetStatus and waits; the daemon runs the
\* engine and replies. The listener gets None when the daemon is not there, when
\* get_status raises (an error reply) or when the reply comes after the time limit
\* of the call.
LateJoinQuery ==
    /\ IF dstate = "loop"
       THEN \E in \in Scenarios, timely \in BOOLEAN :
              /\ GetStatus(in)
              /\ OnLateJoin(IF Reply(run').raised \/ ~timely THEN None ELSE Reply(run').val)
       ELSE OnLateJoin(None) /\ UNCHANGED <<engineVars, journal, served>>
    /\ late' = (late \/ dstate = "loop")
    /\ UNCHANGED <<dstate, status_timers, heartbeat_timers, bus, signalled>>

DaemonTick ==
    /\ now < MaxDaemonTime
    /\ dstate \notin {"boot", "started"}
    /\ bus = <<>>
    /\ status_timers[0] = 0
    /\ heartbeat_timers[0] = 0
    /\ now' = now + 1
    /\ ListenerTick
    /\ status_timers' = Elapse(status_timers, STATUS_INTERVAL)
    /\ heartbeat_timers' = Elapse(heartbeat_timers, HEARTBEAT_INTERVAL)
    /\ late' = FALSE
    /\ UNCHANGED <<engineVars, dstate, bus, journal, served, signalled, historyVars>>

\* The suppression files the listener may find when it starts with the daemon.
SystemIgnoreFiles ==
    {Absent, File(Str(2 * TickSeconds)), File(Str((MaxDaemonTime + 1) * TickSeconds))}

Init ==
    /\ worlddeps = Absent
    /\ pkgrevd = Absent
    /\ run = NoRun
    /\ dstate = "boot"
    /\ Constructed
    /\ ListenerStarted
    /\ ignore_file \in SystemIgnoreFiles

Next ==
    \/ DaemonRun(FALSE)
    \/ DaemonRunHeartbeat
    \/ StatusTimerFires(FALSE)
    \/ HeartbeatTimerFires
    \/ DeliverMessageSent
    \/ DeliverHeartbeat
    \/ LateJoinQuery
    \/ HeartbeatTimesOut
    \/ DaemonTick

Spec == Init /\ [][Next]_vars

----------------------------------------------------------------------------
(* The daemon alone: any client calls GetStatus at any time, a termination request
   is delivered at any time *)

\* A client calls GetStatus; the daemon serves the call when the loop runs. A signal
\* may be handled while the engine runs.
ClientCall(in, sig) ==
    /\ dstate = "loop"
    /\ bus = <<>>
    /\ GetStatus(in)
    /\ dstate' = Quit(sig, "loop")
    /\ signalled' = (signalled \/ sig)
    /\ late' = TRUE
    /\ UNCHANGED <<status_timers, heartbeat_timers, bus, now, listenerVars, historyVars>>

\* SIGTERM or SIGINT is handled while run() has not entered loop.run() yet, or while
\* the loop waits: _sigterm_handler calls loop.quit().
_sigterm_handler ==
    /\ dstate \in {"boot", "started", "loop"}
    /\ signalled' = TRUE
    /\ UNCHANGED late
    /\ dstate' = IF dstate = "loop" THEN Quit(TRUE, dstate) ELSE dstate
    /\ UNCHANGED <<engineVars, status_timers, heartbeat_timers, bus, journal, served, now,
                   listenerVars, historyVars>>

\* The bus hands the oldest signal to whoever listens.
Broadcast ==
    /\ bus # <<>>
    /\ bus' = Tail(bus)
    /\ UNCHANGED <<engineVars, dstate, status_timers, heartbeat_timers, journal, served,
                   signalled, late, now, listenerVars, historyVars>>

LoopTick ==
    /\ now < MaxLoopTime
    /\ dstate = "loop"
    /\ bus = <<>>
    /\ status_timers[0] = 0
    /\ heartbeat_timers[0] = 0
    /\ now' = now + 1
    /\ status_timers' = Elapse(status_timers, STATUS_INTERVAL)
    /\ heartbeat_timers' = Elapse(heartbeat_timers, HEARTBEAT_INTERVAL)
    /\ late' = FALSE
    /\ UNCHANGED <<engineVars, dstate, bus, journal, served, signalled, listenerVars,
                   historyVars>>

InitDaemon ==
    /\ worlddeps = Absent
    /\ pkgrevd = Absent
    /\ run = NoRun
    /\ dstate = "boot"
    /\ Constructed
    /\ ListenerStarted
    /\ ignore_file = Absent

NextDaemon ==
    \/ \E sig \in BOOLEAN : DaemonRun(sig)
    \/ DaemonRunHeartbeat
    \/ \E sig \in BOOLEAN : StatusTimerFires(sig)
    \/ HeartbeatTimerFires
    \/ \E in \in Scenarios, sig \in BOOLEAN : ClientCall(in, sig)
    \/ _sigterm_handler
    \/ Broadcast
    \/ LoopTick

SpecDaemon == InitDaemon /\ [][NextDaemon]_vars

----------------------------------------------------------------------------
(* The daemon and the listener when a run of the engine takes time: the run loop of
   the daemon dispatches nothing while a callback runs *)

\* The time, in ticks, at which the clock stops when runs of the engine take time.
MaxLiveTime == 25

\* The probe outcomes a client's call of GetStatus meets: what the call returns does
\* not bear on the time it takes.
CallInputs == {DefaultInput}

\* One tick later, while the loop is busy: the timeouts that were due stay due.
Overdue(timers, interval) ==
    [Elapse(timers, interval) EXCEPT ![0] = @ + timers[0]]

\* One tick of the clock passes while a callback of the daemon runs: the timers of
\* the listener go on, the timeouts of the daemon wait for the loop.
WhileBusy ==
    /\ now < MaxLiveTime
    /\ now' = now + 1
    /\ ListenerTick

\* The main loop dispatches a due timeout of _send_periodic, and the run of the
\* engine, which takes less than one tick, is still going on when the clock ticks:
\* the source was set again when it was dispatched, the new timeout is added and the
\* signal emitted after the tick.
SlowStatusTimerFires ==
    /\ dstate = "loop"
    /\ bus = <<>>
    /\ status_timers[0] > 0
    /\ late
    /\ WhileBusy
    /\ \E in \in Scenarios :
         _send_periodic(in,
             Overdue(Dispatched(status_timers, STATUS_INTERVAL, TRUE), STATUS_INTERVAL),
             Overdue(Dispatched(status_timers, STATUS_INTERVAL, FALSE), STATUS_INTERVAL))
    /\ heartbeat_timers' = Overdue(heartbeat_timers, HEARTBEAT_INTERVAL)
    /\ late' = TRUE
    /\ UNCHANGED <<dstate, served, signalled, historyVars>>

\* A client calls GetStatus, and the run of the engine, which takes less than one
\* tick, is still going on when the clock ticks.
SlowClientCall ==
    /\ dstate = "loop"
    /\ late \/ (status_timers[0] = 0 /\ heartbeat_timers[0] = 0)
    /\ bus = <<>>
    /\ WhileBusy
    /\ \E in \in CallInputs : GetStatus(in)
    /\ status_timers' = Overdue(status_timers, STATUS_INTERVAL)
    /\ heartbeat_timers' = Overdue(heartbeat_timers, HEARTBEAT_INTERVAL)
    /\ late' = TRUE
    /\ UNCHANGED <<dstate, bus, signalled, historyVars>>

LiveTick == now < MaxLiveTime /\ DaemonTick

InitLive ==
    /\ worlddeps = Absent
    /\ pkgrevd = Absent
    /\ run = NoRun
    /\ dstate = "boot"
    /\ Constructed
    /\ ListenerStarted
    /\ ignore_file = Absent

NextLive ==
    \/ DaemonRun(FALSE)
    \/ DaemonRunHeartbeat
    \/ StatusTimerFires(FALSE)
    \/ SlowStatusTimerFires
    \/ HeartbeatTimerFires
    \/ \E in \in CallInputs : ClientCall(in, FALSE)
    \/ SlowClientCall
    \/ DeliverMessageSent
    \/ DeliverHeartbeat
    \/ LateJoin(None)
    \/ HeartbeatTimesOut
    \/ LiveTick

SpecLive == InitLive /\ [][NextLive]_vars

----------------------------------------------------------------------------
(* Claims about one engine run *)

\* The enumeration StatusCode, as the literals get_status returns.
StatusCodes ==
    {"no_internet", "blocked_sync", "upgrade_check_failed", "blocked_upgrade",
     "orphans_check_failed", "upgrade_detected", "orphans_detected", "up_to_date"}

ProbeOrder == <<"check_internet", "sync", "check_update", "check_orphans">>

Done == run # NoRun
Invoked(probe) == \E k \in 1..Len(run.calls) : run.calls[k] = probe

\* The probe outcomes of the run, read off its inputs.
Connected == run.in.net \in {"ok", "http_error"}
Synced == Connected /\ run.in.sync = "ok"
HasBrokenLine(u) == \E i \in 1..Len(u.stdout) : u.stdout[i] = BrokenBinaryLine
UpdateRaised == run.in.update.fault \in {"launch", "decode", "write"}
                    \/ HasBrokenLine(run.in.update)
\* The update probe produced an UpdateSet and get_status read it back: it is the
\* content of the worlddeps file.
UpdateSucceeded == Synced /\ ~UpdateRaised /\ run.in.update.fault # "read"
binaryUpdates == worlddeps.data[1]
sourceUpdates == worlddeps.data[2]
configurationBlocked == worlddeps.data[3] # 0
OrphansSucceeded == Invoked("check_orphans") /\ run.in.orphans.fault = "none"
\* The list of removable packages check_orphans built and wrote.
removable == pkgrevd.data[1]

C2_BlockedUpgradeFirst ==
    Done /\ UpdateSucceeded /\ configurationBlocked =>
        run.status = "blocked_upgrade" /\ ~Invoked("check_orphans")

C2_Witness ==
    /\ Done /\ UpdateSucceeded /\ configurationBlocked
    /\ binaryUpdates # <<>>
    /\ run.status = "blocked_upgrade"

\* C3: when connectivity, sync and the update probe succeed without
\* configurationBlocked, the orphan probe is invoked exactly when both update lists
\* are empty, and the run returns upgrade_detected when one of them is not.
C3_OrphansOnlyWhenCurrent ==
    Done /\ UpdateSucceeded /\ ~configurationBlocked =>
        /\ Invoked("check_orphans") <=> (binaryUpdates = <<>> /\ sourceUpdates = <<>>)
        /\ (binaryUpdates # <<>> \/ sourceUpdates # <<>>) => run.status = "upgrade_detected"

C3_Witness ==
    /\ Done /\ UpdateSucceeded /\ ~configurationBlocked
    /\ binaryUpdates = <<>> /\ sourceUpdates # <<>>
    /\ run.status = "upgrade_detected"

\* C4 (as claimed): when all four probes succeed, configurationBlocked is false and
\* both update lists are empty, the run returns up_to_date when the orphan probe found
\* no removable package and orphans_detected when it found one.
C4_UpToDateOrOrphans ==
    Done /\ UpdateSucceeded /\ ~configurationBlocked
         /\ binaryUpdates = <<>> /\ sourceUpdates = <<>> /\ OrphansSucceeded =>
        /\ removable = <<>> => run.status = "up_to_date"
        /\ removable # <<>> => run.status = "orphans_detected"

\* C5 (as claimed): every run ends by returning one StatusCode; no exception leaves
\* get_status.
C5_NoExceptionEscapes == Done => ~run.raised /\ run.status \in StatusCodes

\* C6 (as claimed): when connectivity and sync succeed and the update dry-run cannot
\* be launched, exits with a failure status or prints output that cannot be parsed,
\* the run returns upgrade_check_failed and the orphan probe is not invoked.
C6_AsClaimed ==
    Done /\ Synced /\ (\/ run.in.update.fault \in {"launch", "decode"}
                       \/ run.in.update.exit # 0
                       \/ HasBrokenLine(run.in.update)) =>
        run.status = "upgrade_check_failed" /\ ~Invoked("check_orphans")

\* C6 (amended): when connectivity and sync succeed and check_update raises (emerge
\* cannot be launched, its output is no UTF-8, a marked line has no closing bracket,
\* the worlddeps file cannot be written) or the file cannot be read back, the run
\* returns upgrade_check_failed and the orphan probe is not invoked.
C6_UpdateCheckFailed ==
    Done /\ Synced /\ (UpdateRaised \/ run.in.update.fault = "read") =>
        run.status = "upgrade_check_failed" /\ ~Invoked("check_orphans")

C6_Witness ==
    /\ Done /\ Synced
    /\ HasBrokenLine(run.in.update)
    /\ run.in.update.fault = "none"
    /\ run.status = "upgrade_check_failed"

\* C15: the status of a run (or its exception) is the one the same probe outcomes
\* give with no intermediate file on disk, whatever files the runs before left; and a
\* run that meets the probe outcomes of the run before it ends as that one did.
C15_Idempotent ==
    /\ [](Done => /\ run.status = get_status(run.in, Absent, Absent).status
                  /\ run.raised = get_status(run.in, Absent, Absent).raised)
    /\ [][run # NoRun /\ run'.in = run.in =>
            run'.status = run.status /\ run'.raised = run.raised]_vars

\* A second run on the same probe outcomes, whose update probe fails while the file
\* of an earlier run, which says the upgrade is blocked, is still on disk.
C15_Witness ==
    /\ run.caller = "_send_periodic"
    /\ run.in.update.fault = "launch"
    /\ run.status = "upgrade_check_failed"
    /\ worlddeps.exists
    /\ worlddeps.data[3] # 0

\* The lines of the update dry-run that the parser can split.
WellFormed(stdout_lines) == SelectSeq(stdout_lines, LAMBDA line : line # BrokenBinaryLine)

\* C19 (as claimed): when connectivity and sync succeed and the output of the update
\* dry-run holds a marked line without the closing bracket, nothing else going wrong,
\* the run does not return upgrade_check_failed and the UpdateSet holds the packages
\* of the other lines.
C19_MalformedLineTolerated ==
    Done /\ Synced /\ HasBrokenLine(run.in.update) /\ run.in.update.fault = "none" =>
        /\ run.status # "upgrade_check_failed"
        /\ worlddeps.exists
        /\ binaryUpdates = Marked(WellFormed(run.in.update.stdout), "[binary")
        /\ sourceUpdates = Marked(WellFormed(run.in.update.stdout), "[ebuild")

----------------------------------------------------------------------------
(* Claims about the listener *)

Suppressible == {"blocked_upgrade", "orphans_detected", "upgrade_detected", "up_to_date"}
\* The always-notify statuses, as the literals the listener matches.
AlwaysNotify == {"no_internet", "blocked_sync", "upgrade_check_failed", "orphan_check_failed"}

\* The listener handled a status last (a broadcast, or the reply to its query).
ReceivedStatus == last.kind \in {"MessageSent", "GetStatus"} /\ last.message # None

\* The suppression window the file f holds, when it holds one.
HoldsWindow(f) == f.exists /\ ~IntRaises(Strip(f.data))
expiresAt(f) == ParseInt(Strip(f.data))

Max(a, b) == IF a >= b THEN a ELSE b

\* The always-notify statuses, as the literals get_status returns.
DaemonAlwaysNotify ==
    {"no_internet", "blocked_sync", "upgrade_check_failed", "orphans_check_failed"}

\* C7 (as claimed): whenever the engine of the daemon produces an always-notify
\* status and it reaches handle_message, as a MessageSent broadcast or as the reply
\* to the late-join query, the listener displays a notification, whatever the
\* suppression window.
C7_AlwaysNotifyDisplayed ==
    ReceivedStatus /\ last.message \in DaemonAlwaysNotify => tray # ""

\* C8: a suppressible status received at time now is displayed exactly when the
\* suppression window is absent or has expiresAt <= now, so that an expired window
\* decides as an absent one does; the always-notify literals are displayed whatever
\* the window.
C8_SuppressionWindow ==
    ReceivedStatus /\ (~last.window.exists \/ HoldsWindow(last.window)) =>
        /\ last.message \in Suppressible =>
              (tray # "" <=> (\/ ~last.window.exists
                              \/ expiresAt(last.window) <= last.at * TickSeconds))
        /\ last.message \in AlwaysNotify => tray # ""

C8_Witness ==
    /\ ReceivedStatus
    /\ last.message = "up_to_date"
    /\ HoldsWindow(last.window)
    /\ expiresAt(last.window) = last.at * TickSeconds
    /\ last.at > 0
    /\ tray = "Up to date"

\* C9 (as claimed): the deadline of the heartbeat timeout is one timeout after the
\* last received broadcast (or the last timeout, or the start of the listener): only
\* a received broadcast postpones it.
C9_AsClaimed ==
    now + heartbeat_timer = Max(broadcastAt, firedAt) + HeartbeatTimeout

\* C9 (amended): the deadline of the heartbeat timeout is one timeout after the last
\* of: the start of the listener, a received broadcast of either kind, a late-join
\* reply that carried a status, the previous timeout. The timeout runs exactly at
\* the deadline, and a received broadcast sets the deadline to now + timeout.
C9_Deadline ==
    /\ heartbeat_timer \in 0..HeartbeatTimeout
    /\ now + heartbeat_timer = Max(restartAt, firedAt) + HeartbeatTimeout
    /\ firedAt > restartAt => firedAt = restartAt + missedSinceRestart * HeartbeatTimeout
    /\ last.kind \in {"MessageSent", "Heartbeat"} /\ last.at = now =>
          now + heartbeat_timer = now + HeartbeatTimeout

C9_Witness ==
    /\ last.kind = "timeout"
    /\ restartAt = broadcastAt
    /\ restartAt > 0
    /\ firedAt = restartAt + HeartbeatTimeout
    /\ now = firedAt

\* C10 (as claimed): k full timeout intervals after the last received broadcast (or
\* the start of the listener), k liveness-failure notifications have been displayed
\* (the k-th being due at the very end of the k-th interval).
C10_AsClaimed ==
    LET k == (now - broadcastAt) \div HeartbeatTimeout IN
    IF heartbeat_timer = 0 /\ (now - broadcastAt) % HeartbeatTimeout = 0
    THEN missedSinceBroadcast = k - 1
    ELSE missedSinceBroadcast = k

\* C10 (amended): k full timeout intervals after the last restart of the timer (the
\* start of the listener, a received broadcast, a late-join reply that carried a
\* status), exactly k liveness-failure notifications have been displayed, the k-th
\* being due at the very end of the k-th interval.
C10_OncePerInterval ==
    LET k == (now - restartAt) \div HeartbeatTimeout IN
    missedSinceRestart = IF heartbeat_timer = 0 THEN k - 1 ELSE k

C10_Witness ==
    /\ missedSinceRestart = 2
    /\ now = restartAt + 2 * HeartbeatTimeout
    /\ tray = "Heartbeat Missed"

\* A step in which set_ignore runs.
MenuStep == last'.kind = "menu" /\ <<last, ignore_file, tray>>' # <<last, ignore_file, tray>>

\* The times, in seconds, around the expiry of a window set now with the duration.
Around(duration) ==
    {time_time, time_time + duration - 1, time_time + duration, time_time + duration + 1}

\* The window is overwritten with expiresAt = now + duration: is_ignored is true at
\* exactly the times before now + duration.
Overwritten(duration) ==
    /\ HoldsWindow(ignore_file')
    /\ expiresAt(ignore_file') = time_time + duration
    /\ \A t \in Around(duration) : is_ignored_of(ignore_file', t) <=> t < time_time + duration

Title(message) ==
    CASE message = "no_internet" -> "No Internet"
      [] message = "blocked_sync" -> "Sync Failed"
      [] message \in {"upgrade_check_failed", "orphan_check_failed"} -> "Check Failed"
      [] message = "blocked_upgrade" -> "Blocked Upgrade"
      [] message = "orphans_detected" -> "Orphans Detected"
      [] message = "upgrade_detected" -> "System Upgrade"
      [] message = "up_to_date" -> "Up to date"
      [] OTHER -> ""

\* What the classification displays for a status received at time `at` with the
\* suppression file `window`.
Classified(message, window, at) ==
    IF message \in Suppressible /\ is_ignored_of(window, at * TickSeconds)
    THEN "" ELSE Title(message)

\* A step in which delayed_status_query runs.
LateJoinStep == last'.kind = "GetStatus" /\ last' # last

\* C16: the late-join query runs once, LateJoinDelay after the start and not before;
\* a status it returns is classified as a MessageSent carrying it is (the same
\* display under the same suppression file, the deadline of the heartbeat reset);
\* when it returns none nothing is displayed and the deadline is left as it was; the
\* suppression file is never changed by it.
C16_LateJoin ==
    /\ [](/\ now < LateJoinDelay => late_join > 0 /\ last.kind # "GetStatus"
          /\ now > LateJoinDelay => late_join = -1
          /\ last.kind = "GetStatus" => last.at = LateJoinDelay)
    /\ [](ReceivedStatus /\ last.at = now =>
             /\ tray = Classified(last.message, last.window, last.at)
             /\ heartbeat_timer = HeartbeatTimeout)
    /\ [][late_join' # late_join /\ late_join' = -1 => LateJoinStep]_vars
    /\ [][LateJoinStep =>
            /\ late_join = 0 /\ late_join' = -1
            /\ ignore_file' = ignore_file
            /\ last'.message = None => tray' = "" /\ heartbeat_timer' = heartbeat_timer]_vars

\* The reply to the late-join query carries a suppressible status while the window
\* holds: nothing is displayed, the deadline is reset.
C16_Witness ==
    /\ last.kind = "GetStatus"
    /\ last.message = "upgrade_detected"
    /\ now = LateJoinDelay
    /\ HoldsWindow(last.window)
    /\ expiresAt(last.window) > time_time
    /\ tray = ""
    /\ heartbeat_timer = HeartbeatTimeout
    /\ late_join = -1

\* C18 (as claimed): a status handled while a menu action has opened the suppression
\* file and not yet written it is classified on the old content of the file or on the
\* new one: is_ignored gives what it gives for the old window or for the new window.
C18_BenignRace ==
    writer.pc = "opened" /\ ReceivedStatus /\ last.at = now =>
        /\ last.window \in {writer.old, writer.new}
        /\ last.message \in Suppressible =>
              (tray = "") \in {is_ignored_of(writer.old, time_time),
                               is_ignored_of(writer.new, time_time)}

-----------------------------------------------------------------------\* A step in which the listener handles a status: a broadcast of it, or the reply
\* to the late-join query.
ReceiveStep == last'.kind \in {"MessageSent", "GetStatus"} /\ last'.message # None /\ last' # last

\* The suppression file exists and no integer can be read from it.
NoInteger(f) == f.exists /\ (ReadRaises(f) \/ IntRaises(Strip(f.data)))

\* C22: when the suppression file exists and no integer can be read from it (it is
\* empty, holds white space or no number, or the read raises), is_ignored returns
\* false at every time, every suppressible status received is displayed, and the
\* step that handles a status leaves the file as it was.
C22_NoIntegerNoSuppression ==
    /\ [](ReceivedStatus /\ NoInteger(last.window) =>
             /\ \A at \in 0..MaxTime : ~is_ignored_of(last.window, at * TickSeconds)
             /\ last.message \in Suppressible => tray = Title(last.message))
    /\ [][ReceiveStep => ignore_file' = ignore_file /\ last'.window = ignore_file]_vars

\* A suppressible status is received, after the start of the listener, while the
\* suppression file cannot be read; it is displayed.
C22_Witness ==
    /\ ReceivedStatus
    /\ last.at > 0
    /\ last.message = "orphans_detected"
    /\ last.window = File(<<Undecodable>>)
    /\ ignore_file = File(<<Undecodable>>)
    /\ tray = "Orphans Detected"

-----
(* Claims about the daemon *)

\* How many timeouts are pending among timers.
RECURSIVE PendingFrom(_, _, _)
PendingFrom(timers, interval, r) ==
    IF r > Ticks(interval) THEN 0 ELSE timers[r] + PendingFrom(timers, interval, r + 1)

Pending(timers, interval) == PendingFrom(timers, interval, 0)

\* C11 (as claimed): while the loop runs, after any number of timer firings, exactly
\* one timeout of the status task and exactly one timeout of the heartbeat task are
\* pending.
C11_OneTimerEach ==
    dstate = "loop" =>
        /\ Pending(status_timers, STATUS_INTERVAL) = 1
        /\ Pending(heartbeat_timers, HEARTBEAT_INTERVAL) = 1

\* C12 (as claimed): a call of GetStatus runs the engine once and gives its caller
\* the StatusCode of that run; it emits no signal and leaves the pending timeouts of
\* both tasks as they are.
C12_GetStatusFrame ==
    [][served' = served + 1 =>
          /\ run'.caller = "GetStatus"
          /\ ~Reply(run').raised
          /\ Reply(run').val = run'.status
          /\ run'.status \in StatusCodes
          /\ bus' = bus
          /\ status_timers' = status_timers
          /\ heartbeat_timers' = heartbeat_timers]_vars

\* C13 (as claimed): once a termination request has been handled and the task run
\* that was in flight has ended, the loop does not run any more; and after the loop
\* has quit no engine run starts, no timeout is dispatched and no call is served.
C13_TerminationStops ==
    /\ [](signalled => dstate # "loop")
    /\ [][dstate = "exited" =>
            UNCHANGED <<engineVars, status_timers, heartbeat_timers, journal, served>>]_vars

\* A step in which _send_periodic runs: called by run(), or dispatched by the loop.
PeriodicStep ==
    \/ dstate = "boot" /\ dstate' # "boot"
    \/ now' = now /\ status_timers' # status_timers

\* C17 (as claimed): every run of the status task runs the engine and publishes one
\* MessageSent, which carries the StatusCode of that engine run; and no MessageSent is
\* published in any other step.
C17_OneMessagePerRun ==
    /\ [][PeriodicStep =>
            /\ run'.caller = "_send_periodic"
            /\ run'.status \in StatusCodes
            /\ bus' = Append(bus, MessageSent(run'.status))]_vars
    /\ [][Len(bus') > Len(bus) /\ bus'[Len(bus')].signal = "MessageSent" => PeriodicStep]_vars

\* What the daemon does first, in order.
Startup == <<"get_status", "MessageSent", "Heartbeat">>

\* C20: the daemon first runs the engine, then emits the MessageSent that carries the
\* status of that run, then the first Heartbeat; it serves no call of GetStatus
\* before all three.
C20_StartupOrder ==
    /\ [](/\ \A i \in 1..Len(journal) : i <= Len(Startup) => journal[i] = Startup[i]
          /\ served > 0 => Len(journal) >= Len(Startup))
    /\ [][journal = <<>> /\ Len(journal') >= 2 =>
            /\ run'.caller = "_send_periodic"
            /\ bus' = <<MessageSent(run'.status)>>]_vars

\* A call of GetStatus is the fourth thing the daemon does.
C20_Witness ==
    /\ journal = Startup \o <<"GetStatus">>
    /\ served = 1
    /\ run.caller = "GetStatus"

====
